---- MODULE Spec2Model ----
(***************************************************************************)
(* A model of flocker/control/_diffing.py: the change ops (_Remove, _Set,  *)
(* _Add), the batching applier (_TransformProxy), Diff.apply, the          *)
(* differencer (create_diff and its helpers) and compose_diffs, with the   *)
(* pyrsistent operations the module calls (_get, evolver, transform).      *)
(***************************************************************************)
EXTENDS Integers, Sequences, FiniteSets, TLC

VARIABLES
    obj,        \* the tree the caller passes to create_diff / Diff.apply
    target,     \* object_b of create_diff (None when the Diff was composed)
    diffs,      \* the Diffs handed to compose_diffs, each a sequence of ops
    changes,    \* Diff.changes of the Diff being applied
    pc,         \* "idle", "ready", "loop" (inside Diff.apply), "done", "failed"
    idx,        \* position of Diff.apply's for loop in changes
    proxy,      \* the _TransformProxy of the running Diff.apply
    result,     \* the tree Diff.apply returned
    error,      \* the exception Diff.apply raised ("" for none)
    finalized,  \* one entry per evolver.persistent() call of this apply
    calls,      \* the frames of Diff.apply calls running side by side on obj
    clock,      \* the twisted Clock of the Wait operation's test
    wait        \* the Wait operation's probe and the Deferred its run() returned

vars == <<obj, target, diffs, changes, pc, idx, proxy, result, error, finalized,
          calls, clock, wait>>

----------------------------------------------------------------------------
(* Bounds of the model. *)

\* number of distinct scalar strings / set elements
MaxAtoms == 2
\* most ops in the Diffs handed to compose_diffs, taken together
MaxOps == 3
\* most Diffs handed to compose_diffs
MaxDiffs == 2

AtomNames == <<"a", "b", "c", "d">>
Atoms == {AtomNames[i] : i \in 1..MaxAtoms}
\* keys of mappings
Keys == {"x", "y"}

----------------------------------------------------------------------------
(* Python values: None, str, and pyrsistent's PSet, PMap and PClass.       *)

None == [k |-> "none"]
Str(s) == [k |-> "str", v |-> s]
PSet(S) == [k |-> "pset", e |-> S]
PMap(f) == [k |-> "pmap", m |-> f]
\* an instance of the one record class of the model, with the fields set
PClass(f) == [k |-> "pclass", m |-> f]

type(o) == o.k

EmptyFn == [key \in {} |-> None]
PartialFns(K, V) == UNION {[D -> V] : D \in SUBSET K}

\* the outcome of a Python expression: a value, or a raised exception
Ok(v) == [err |-> "", val |-> v]
Raise(e) == [err |-> e, val |-> None]

Last(s) == s[Len(s)]
Front(s) == SubSeq(s, 1, Len(s) - 1)

\* The record class: fields x, y and z; its __invariant__ requires
\* "x non-empty implies y set" (a field is set when it holds a non-None value).
RecordFields == {"x", "y", "z"}
IsSet(f, name) == name \in DOMAIN f /\ f[name] # None
RecordInvariant(f) == IsSet(f, "x") => IsSet(f, "y")

----------------------------------------------------------------------------
(* pyrsistent *)

\* a lookup that stays where it is when the key is missing
_get_staying(structure, key) ==
    CASE type(structure) = "pmap" ->
            Ok(IF key \in DOMAIN structure.m THEN structure.m[key] ELSE structure)
      [] type(structure) = "str" -> Raise("TypeError")
      [] type(structure) = "pclass" ->
            IF key \in DOMAIN structure.m THEN Ok(structure.m[key])
            ELSE Raise("AttributeError")
      [] OTHER -> Raise("AttributeError")

\* pyrsistent._transformations._get(structure, key, None)
_get(structure, key) ==
    CASE type(structure) = "pmap" ->
            Ok(IF key \in DOMAIN structure.m THEN structure.m[key] ELSE None)
      [] type(structure) = "str" -> Raise("TypeError")
      [] type(structure) = "pclass" ->
            IF key \in DOMAIN structure.m THEN Ok(structure.m[key])
            ELSE Raise("AttributeError")
      [] OTHER -> Raise("AttributeError")

\* reduce(lambda o, segment: _get(o, segment, None), path, o)
RECURSIVE Resolve(_, _)
Resolve(o, path) ==
    IF path = <<>> THEN Ok(o)
    ELSE LET g == _get(o, Head(path))
         IN IF g.err # "" THEN g ELSE Resolve(g.val, Tail(path))

\* target.evolver(): the builder starts as a copy of target
evolver(o) ==
    IF type(o) \in {"pmap", "pset", "pclass"} THEN Ok(o) ELSE Raise("AttributeError")

\* evolver.remove(item)
evolver_remove(ev, item) ==
    CASE type(ev) = "pset" ->
            IF item \in ev.e THEN Ok(PSet(ev.e \ {item})) ELSE Raise("KeyError")
      [] type(ev) = "pmap" ->
            IF item \in DOMAIN ev.m
            THEN Ok(PMap([key \in DOMAIN ev.m \ {item} |-> ev.m[key]]))
            ELSE Raise("KeyError")
      [] OTHER ->
            IF item \in DOMAIN ev.m
            THEN Ok(PClass([key \in DOMAIN ev.m \ {item} |-> ev.m[key]]))
            ELSE Raise("AttributeError")

\* evolver.set(key, value)
evolver_set(ev, key, value) ==
    CASE type(ev) = "pset" -> Raise("AttributeError")
      [] OTHER ->
            Ok([ev EXCEPT !.m = [n \in DOMAIN ev.m \cup {key} |->
                                    IF n = key THEN value ELSE ev.m[n]]])

\* evolver.add(item)
evolver_add(ev, item) ==
    CASE type(ev) = "pset" -> Ok(PSet(ev.e \cup {item}))
      [] type(ev) = "pmap" -> Raise("AttributeError")
      [] OTHER -> Raise("KeyError")

\* evolver.persistent(): a record is constructed anew, which validates it
persistent(ev) ==
    IF type(ev) # "pclass" THEN Ok(ev)
    ELSE IF ~(DOMAIN ev.m \subseteq RecordFields) THEN Raise("AttributeError")
    ELSE IF ~RecordInvariant(ev.m) THEN Raise("InvariantException")
    ELSE Ok(ev)

\* structure.transform(path, command) for a command that is a value
\* e[k] = result; return e.persistent()
_update_structure(structure, key, r) ==
    IF r.err # "" THEN r
    ELSE IF type(structure) = "pset" THEN Raise("TypeError")
    ELSE persistent(evolver_set(structure, key, r.val).val)

RECURSIVE _do_to_path(_, _, _)
_do_to_path(structure, path, command) ==
    IF path = <<>> THEN Ok(command)
    ELSE IF _get(structure, Head(path)).err # "" THEN _get(structure, Head(path))
    ELSE IF evolver(structure).err # "" THEN evolver(structure)
    ELSE _update_structure(structure, Head(path),
                           _do_to_path(_get(structure, Head(path)).val,
                                       Tail(path), command))

pyr_transform(structure, path, command) ==
    IF type(structure) \notin {"pmap", "pclass"} THEN Raise("AttributeError")
    ELSE _do_to_path(structure, path, command)

----------------------------------------------------------------------------
(* The change ops.  A Diff's changes are a sequence of these. *)

_Remove(path, item) == [op |-> "Remove", path |-> path, item |-> item, value |-> None]
_Set(path, value) == [op |-> "Set", path |-> path, item |-> "", value |-> value]
_Add(path, item) == [op |-> "Add", path |-> path, item |-> item, value |-> None]

\* the lambda each op hands to transform, applied to an evolver
operation(c, ev) ==
    CASE c.op = "Remove" -> evolver_remove(ev, c.item)
      [] c.op = "Set" -> evolver_set(ev, Last(c.path), c.value)
      [] OTHER -> evolver_add(ev, c.item)

RECURSIVE RunOperations(_, _)
\* for operation in self._operations: operation(evolver)
RunOperations(ev, ops) ==
    IF ops = <<>> THEN Ok(ev)
    ELSE LET r == operation(Head(ops), ev)
         IN IF r.err # "" THEN r ELSE RunOperations(r.val, Tail(ops))

----------------------------------------------------------------------------
(* _TransformProxy *)

\* _current_path = None
NonePath == <<"None">>

_TransformProxy(original) ==
    [_original_object |-> original,
     _operations |-> <<>>,
     _current_path |-> NonePath,
     _current_object |-> original]

\* what a call on the proxy leaves behind: the exception raised (or ""), the
\* value returned, the proxy afterwards, the builders it finalized
Step(err, val, self, fin) == [err |-> err, val |-> val, self |-> self, finalized |-> fin]

\* self._current_object = self._current_object.transform(path, target)
commit_splice(self, entry, s) ==
    IF s.err # "" THEN Step(s.err, None, [self EXCEPT !._operations = <<>>], <<entry>>)
    ELSE Step("", s.val,
              [self EXCEPT !._operations = <<>>, !._current_object = s.val],
              <<entry>>)

\* target = evolver.persistent(); self._operations = []
commit_persist(self, entry, p) ==
    IF p.err # "" THEN Step(p.err, None, self, <<entry>>)
    ELSE commit_splice(self, entry,
                       pyr_transform(self._current_object, self._current_path, p.val))

\* for operation in self._operations: operation(evolver)
commit_operations(self, m) ==
    IF m.err # "" THEN Step(m.err, None, self, <<>>)
    ELSE commit_persist(self,
                        [path |-> self._current_path,
                         n |-> Len(self._operations),
                         builder |-> m.val],
                        persistent(m.val))

\* evolver = target.evolver()
commit_evolver(self, e) ==
    IF e.err # "" THEN Step(e.err, None, self, <<>>)
    ELSE commit_operations(self, RunOperations(e.val, self._operations))

\* target = reduce(_get, self._current_path, self._current_object)
commit_target(self, t) ==
    IF t.err # "" THEN Step(t.err, None, self, <<>>)
    ELSE commit_evolver(self, evolver(t.val))

\* a commit that looks its target up in the original object
commit_in_original(self) ==
    IF self._operations = <<>> THEN Step("", self._current_object, self, <<>>)
    ELSE commit_target(self, Resolve(self._original_object, self._current_path))

commit(self) ==
    IF self._operations = <<>> THEN Step("", self._current_object, self, <<>>)
    ELSE commit_target(self, Resolve(self._current_object, self._current_path))

\* a proxy that commits before every operation, whatever its path
transform_unbatched(self, path, op) ==
    LET c == IF self._current_path # NonePath
             THEN commit(self)
             ELSE Step("", None, self, <<>>)
    IN IF c.err # "" THEN c
       ELSE Step("", None,
                 [c.self EXCEPT !._current_path = path,
                                !._operations = Append(@, op)],
                 c.finalized)

transform(self, path, op) ==
    LET c == IF self._current_path # NonePath /\ path # self._current_path
             THEN commit(self)
             ELSE Step("", None, self, <<>>)
    IN IF c.err # "" THEN c
       ELSE Step("", None,
                 [c.self EXCEPT !._current_path = path,
                                !._operations = Append(@, op)],
                 c.finalized)

_Remove_apply(c, o) == transform(o, c.path, c)
\* a Set that names its batch by its whole path
_Set_apply_whole_path(c, o) == transform(o, c.path, c)
_Set_apply(c, o) == transform(o, Front(c.path), c)
_Add_apply(c, o) == transform(o, c.path, c)

----------------------------------------------------------------------------
(* Diff.apply *)

\* a loop body that rejects a whole-tree replacement once ops went before it
Diff_apply_body_rejecting(p, c) ==
    IF Len(c.path) > 0
    THEN CASE c.op = "Remove" -> _Remove_apply(c, p)
           [] c.op = "Set" -> _Set_apply(c, p)
           [] OTHER -> _Add_apply(c, p)
    ELSE IF c.op = "Set" /\ p._current_path = NonePath
    THEN Step("", None, _TransformProxy(c.value), <<>>)
    ELSE Step("AssertionError", None, p, <<>>)

\* a loop body that hands the pending batch on to the replacement value
Diff_apply_body_keeping(p, c) ==
    IF Len(c.path) > 0
    THEN CASE c.op = "Remove" -> _Remove_apply(c, p)
           [] c.op = "Set" -> _Set_apply(c, p)
           [] OTHER -> _Add_apply(c, p)
    ELSE IF c.op = "Set"
    THEN Step("", None,
              [p EXCEPT !._original_object = c.value, !._current_object = c.value],
              <<>>)
    ELSE Step("AssertionError", None, p, <<>>)

\* one iteration of the for loop
Diff_apply_body(p, c) ==
    IF Len(c.path) > 0
    THEN CASE c.op = "Remove" -> _Remove_apply(c, p)
           [] c.op = "Set" -> _Set_apply(c, p)
           [] OTHER -> _Add_apply(c, p)
    ELSE IF c.op = "Set" THEN Step("", None, _TransformProxy(c.value), <<>>)
    ELSE Step("AssertionError", None, p, <<>>)

RECURSIVE Diff_apply_for(_, _, _)

\* the loop goes on after an iteration unless it raised
Diff_apply_next(r, rest, fin) ==
    IF r.err # "" THEN Step(r.err, None, r.self, fin \o r.finalized)
    ELSE Diff_apply_for(r.self, rest, fin \o r.finalized)

\* for c in self.changes: ..., from proxy p on; fin collects the builders finalized
Diff_apply_for(p, cs, fin) ==
    IF cs = <<>> THEN Step("", None, p, fin)
    ELSE Diff_apply_next(Diff_apply_body(p, Head(cs)), Tail(cs), fin)

\* return proxy.commit()
Diff_apply_return(loop) ==
    IF loop.err # "" THEN loop
    ELSE Step(commit(loop.self).err, commit(loop.self).val, commit(loop.self).self,
              loop.finalized \o commit(loop.self).finalized)

\* Diff(changes=cs).apply(o), run to its end
Diff_apply(cs, o) == Diff_apply_return(Diff_apply_for(_TransformProxy(o), cs, <<>>))

----------------------------------------------------------------------------
(* The differencer.  The loops iterate over frozensets, whose order the    *)
(* code does not fix: each operator yields the set of change vectors the   *)
(* call can return, one per iteration order.                               *)

RECURSIVE Perms(_)
Perms(S) ==
    IF S = {} THEN {<<>>}
    ELSE UNION {{<<x>> \o p : p \in Perms(S \ {x})} : x \in S}

RECURSIVE Concats(_)
Concats(ss) ==
    IF ss = <<>> THEN {<<>>}
    ELSE {h \o t : h \in Head(ss), t \in Concats(Tail(ss))}

\* a differencer that adds every item of set_b, not only the new ones
_create_diffs_for_sets_adding_all(current_path, set_a, set_b) ==
    {[i \in 1..Len(rs) |-> _Remove(current_path, rs[i])]
        \o [i \in 1..Len(as) |-> _Add(current_path, as[i])] :
            rs \in Perms(set_a \ set_b), as \in Perms(set_b)}

_create_diffs_for_sets(current_path, set_a, set_b) ==
    {[i \in 1..Len(rs) |-> _Remove(current_path, rs[i])]
        \o [i \in 1..Len(as) |-> _Add(current_path, as[i])] :
            rs \in Perms(set_a \ set_b), as \in Perms(set_b \ set_a)}

RECURSIVE _create_diffs_for(_, _, _)
RECURSIVE _create_diffs_for_mappings(_, _, _)

\* a differencer that forgets the keys only mapping_a has
_create_diffs_for_mappings_keeping(current_path, mapping_a, mapping_b) ==
    LET a_keys == DOMAIN mapping_a
        b_keys == DOMAIN mapping_b
        differing == {key \in a_keys \cap b_keys : mapping_a[key] # mapping_b[key]}
        recursed == UNION {Concats([i \in 1..Len(ks) |->
                                _create_diffs_for(Append(current_path, ks[i]),
                                                  mapping_a[ks[i]], mapping_b[ks[i]])]) :
                            ks \in Perms(differing)}
        added == {[i \in 1..Len(ks) |->
                        _Set(Append(current_path, ks[i]), mapping_b[ks[i]])] :
                    ks \in Perms(b_keys \ a_keys)}
    IN {r \o s : r \in recursed, s \in added}

\* a differencer that diffs a record against a mapping key by key
_create_diffs_for_by_shape(current_path, subobj_a, subobj_b) ==
    IF subobj_a = subobj_b THEN {<<>>}
    ELSE IF type(subobj_a) \in {"pclass", "pmap"} /\ type(subobj_b) \in {"pclass", "pmap"}
    THEN _create_diffs_for_mappings(current_path, subobj_a.m, subobj_b.m)
    ELSE IF type(subobj_a) # type(subobj_b)
    THEN {<<_Set(current_path, subobj_b)>>}
    ELSE IF type(subobj_a) = "pset"
    THEN _create_diffs_for_sets(current_path, subobj_a.e, subobj_b.e)
    ELSE {<<_Set(current_path, subobj_b)>>}

\* a differencer that does not test its arguments for equality first
_create_diffs_for_unequal(current_path, subobj_a, subobj_b) ==
    IF type(subobj_a) # type(subobj_b)
    THEN {<<_Set(current_path, subobj_b)>>}
    ELSE IF type(subobj_a) \in {"pclass", "pmap"}
    THEN _create_diffs_for_mappings(current_path, subobj_a.m, subobj_b.m)
    ELSE IF type(subobj_a) = "pset"
    THEN _create_diffs_for_sets(current_path, subobj_a.e, subobj_b.e)
    ELSE {<<_Set(current_path, subobj_b)>>}

_create_diffs_for_mappings(current_path, mapping_a, mapping_b) ==
    LET a_keys == DOMAIN mapping_a
        b_keys == DOMAIN mapping_b
        differing == {key \in a_keys \cap b_keys : mapping_a[key] # mapping_b[key]}
        recursed == UNION {Concats([i \in 1..Len(ks) |->
                                _create_diffs_for(Append(current_path, ks[i]),
                                                  mapping_a[ks[i]], mapping_b[ks[i]])]) :
                            ks \in Perms(differing)}
        added == {[i \in 1..Len(ks) |->
                        _Set(Append(current_path, ks[i]), mapping_b[ks[i]])] :
                    ks \in Perms(b_keys \ a_keys)}
        removed == {[i \in 1..Len(ks) |-> _Remove(current_path, ks[i])] :
                    ks \in Perms(a_keys \ b_keys)}
    IN {r \o s \o t : r \in recursed, s \in added, t \in removed}

_create_diffs_for(current_path, subobj_a, subobj_b) ==
    IF subobj_a = subobj_b THEN {<<>>}
    ELSE IF type(subobj_a) # type(subobj_b)
    THEN {<<_Set(current_path, subobj_b)>>}
    ELSE IF type(subobj_a) \in {"pclass", "pmap"}
    THEN _create_diffs_for_mappings(current_path, subobj_a.m, subobj_b.m)
    ELSE IF type(subobj_a) = "pset"
    THEN _create_diffs_for_sets(current_path, subobj_a.e, subobj_b.e)
    ELSE {<<_Set(current_path, subobj_b)>>}

create_diff(object_a, object_b) == _create_diffs_for(<<>>, object_a, object_b)

RECURSIVE compose_diffs_reversed(_)
\* a composition that puts the later Diffs first
compose_diffs_reversed(iterable_of_diffs) ==
    IF iterable_of_diffs = <<>> THEN <<>>
    ELSE Last(iterable_of_diffs) \o compose_diffs_reversed(Front(iterable_of_diffs))

RECURSIVE compose_diffs_merging(_)
\* a composition that leaves out an op equal to the op composed just before it
compose_diffs_merging(iterable_of_diffs) ==
    IF iterable_of_diffs = <<>> THEN <<>>
    ELSE IF Last(iterable_of_diffs) = <<>>
    THEN compose_diffs_merging(Front(iterable_of_diffs))
    ELSE IF /\ compose_diffs_merging(Front(iterable_of_diffs)) # <<>>
            /\ Last(compose_diffs_merging(Front(iterable_of_diffs)))
                  = Head(Last(iterable_of_diffs))
    THEN compose_diffs_merging(Front(iterable_of_diffs)) \o Tail(Last(iterable_of_diffs))
    ELSE compose_diffs_merging(Front(iterable_of_diffs)) \o Last(iterable_of_diffs)

RECURSIVE compose_diffs(_)
\* reduce(lambda x, y: x.extend(y.changes), iterable_of_diffs, pvector().evolver())
compose_diffs(iterable_of_diffs) ==
    IF iterable_of_diffs = <<>> THEN <<>>
    ELSE compose_diffs(Front(iterable_of_diffs)) \o Last(iterable_of_diffs)

----------------------------------------------------------------------------
(* The trees the callers work on. *)

ScalarVals == {None} \cup {Str(s) : s \in Atoms}
SetVals == {PSet(S) : S \in SUBSET Atoms}
LeafVals == ScalarVals \cup SetVals
MapVals == {PMap(f) : f \in PartialFns(Keys, LeafVals)}
\* a mapping inside a mapping, and a record inside a mapping
InnerMaps == {PMap(f) : f \in PartialFns({"y"}, {Str(s) : s \in Atoms})}
NestedMaps == {PMap([key \in {"x"} |-> m]) : m \in InnerMaps}
\* valid records: x and y hold scalars, z (when set) holds a set
RecVals == {PClass(f) : f \in {g \in [{"x", "y"} -> ScalarVals] \cup
                                       [RecordFields ->  ScalarVals \cup SetVals] :
                                 /\ RecordInvariant(g)
                                 /\ g["x"] \in ScalarVals /\ g["y"] \in ScalarVals
                                 /\ ("z" \in DOMAIN g => g["z"] \in SetVals)}}
NestedRecs == {PMap([key \in {"x"} |-> r]) : r \in {q \in RecVals : "z" \notin DOMAIN q.m}}

Roots == LeafVals \cup MapVals \cup NestedMaps \cup RecVals \cup NestedRecs

----------------------------------------------------------------------------
(* The callers. *)

NoProxy == _TransformProxy(None)
\* no Clock made, no Wait operation made
NoClock == [rightNow |-> 0, calls |-> {}]
NoWait == [wait_seconds |-> 0, ran_at |-> 0, d |-> "no probe"]

Init ==
    /\ obj \in Roots
    /\ target = None
    /\ diffs = <<>>
    /\ changes = <<>>
    /\ pc = "idle"
    /\ idx = 0
    /\ proxy = NoProxy
    /\ result = None
    /\ error = ""
    /\ finalized = <<>>
    /\ calls = <<>>
    /\ clock = NoClock
    /\ wait = NoWait

\* diff = create_diff(obj, object_b)
CreateDiff ==
    /\ pc = "idle"
    /\ \E object_b \in Roots :
         \E cs \in create_diff(obj, object_b) :
            /\ target' = object_b
            /\ changes' = cs
    /\ pc' = "ready"
    /\ UNCHANGED <<obj, diffs, idx, proxy, result, error, finalized, calls, clock, wait>>

\* an applier that writes its accumulated object through to the caller's tree
caller_tree_in_place(o, step) == step.self._current_object

\* the tree the caller holds after a step of Diff.apply: the proxy works on
\* evolvers and on the values transform returns, never on the caller's tree
caller_tree(o, step) == o

\* diff.apply(obj) is entered: proxy = _TransformProxy(original=obj)
ApplyStart ==
    /\ pc = "ready"
    /\ proxy' = _TransformProxy(obj)
    /\ idx' = 1
    /\ pc' = "loop"
    /\ UNCHANGED <<obj, target, diffs, changes, result, error, finalized, calls, clock, wait>>

\* one iteration of "for c in self.changes"
ApplyOp ==
    /\ pc = "loop"
    /\ idx <= Len(changes)
    /\ LET r == Diff_apply_body(proxy, changes[idx])
       IN /\ proxy' = r.self
          /\ error' = r.err
          /\ pc' = IF r.err = "" THEN "loop" ELSE "failed"
          /\ finalized' = finalized \o r.finalized
          /\ obj' = caller_tree(obj, r)
    /\ idx' = idx + 1
    /\ UNCHANGED <<target, diffs, changes, result, calls, clock, wait>>

\* return proxy.commit()
ApplyReturn ==
    /\ pc = "loop"
    /\ idx > Len(changes)
    /\ LET r == commit(proxy)
       IN /\ proxy' = r.self
          /\ error' = r.err
          /\ result' = r.val
          /\ pc' = IF r.err = "" THEN "done" ELSE "failed"
          /\ finalized' = finalized \o r.finalized
          /\ obj' = caller_tree(obj, r)
    /\ UNCHANGED <<target, diffs, changes, idx, calls, clock, wait>>

----------------------------------------------------------------------------
(* Callers that hand Diff.apply Diffs of their own making, composed from   *)
(* a pool of ops, on a few trees the ops fit and do not fit.               *)

A1 == AtomNames[1]
A2 == AtomNames[2]
EmptyMap == PMap(EmptyFn)
UnsetRecord == PClass([key \in {"x", "y"} |-> None])

OpRoots ==
    {UnsetRecord,
     EmptyMap,
     PMap([key \in {"x"} |-> PMap([n \in {"y"} |-> Str(A1)])]),
     PSet({A1})}

OpPool ==
    {_Set(<<"x">>, Str(A1)),
     _Set(<<"y">>, Str(A1)),
     _Set(<<"x">>, EmptyMap),
     _Set(<<"x", "y">>, Str(A2)),
     _Remove(<<"x">>, "y"),
     _Add(<<"x", "y">>, A2),
     _Set(<<>>, UnsetRecord),
     _Remove(<<>>, A1)}

\* cs cut into Len(cuts) + 1 consecutive Diffs at the positions cuts
SplitAt(cs, cuts) ==
    [i \in 1..(Len(cuts) + 1) |->
        SubSeq(cs,
               (IF i = 1 THEN 0 ELSE cuts[i - 1]) + 1,
               IF i > Len(cuts) THEN Len(cs) ELSE cuts[i])]

Cuts(n, k) ==
    {c \in [1..k -> 0..n] : \A i \in 1..k : i < k => c[i] <= c[i + 1]}

\* the lists of k Diffs the ops cs can be cut into
DiffLists(cs, k) ==
    IF k = 0 THEN {<<>>}
    ELSE {SplitAt(cs, c) : c \in Cuts(Len(cs), k - 1)}

InitOps ==
    /\ obj \in OpRoots
    /\ target = None
    /\ diffs = <<>>
    /\ changes = <<>>
    /\ pc = "idle"
    /\ idx = 0
    /\ proxy = NoProxy
    /\ result = None
    /\ error = ""
    /\ finalized = <<>>
    /\ calls = <<>>
    /\ clock = NoClock
    /\ wait = NoWait

\* diff = compose_diffs(ds)
ComposeDiffs ==
    /\ pc = "idle"
    /\ \E k \in 0..MaxDiffs :
         \E n \in 0..(IF k = 0 THEN 0 ELSE MaxOps) :
            \E cs \in [1..n -> OpPool] :
               \E ds \in DiffLists(cs, k) :
                  /\ diffs' = ds
                  /\ changes' = compose_diffs(ds)
    /\ pc' = "ready"
    /\ UNCHANGED <<obj, target, idx, proxy, result, error, finalized, calls, clock, wait>>

Next == CreateDiff \/ ApplyStart \/ ApplyOp \/ ApplyReturn

Spec == Init /\ [][Next]_vars

NextOps == ComposeDiffs \/ ApplyStart \/ ApplyOp \/ ApplyReturn

SpecOps == InitOps /\ [][NextOps]_vars

----------------------------------------------------------------------------
(* Diff.apply calls running side by side on one tree: each call has its    *)
(* own frame (its Diff, its place in the for loop, its local proxy), and   *)
(* the calls' iterations interleave in any order.                          *)

\* most ops in a Diff applied side by side with another
MaxCallOps == 2

Callers == {"t1", "t2"}

ConcRoots ==
    {UnsetRecord,
     EmptyMap,
     PMap([key \in {"x"} |-> PMap([n \in {"y"} |-> Str(A1)])])}

ConcPool ==
    {_Set(<<"x">>, Str(A1)),
     _Set(<<"y">>, Str(A1)),
     _Remove(<<"x">>, "y"),
     _Set(<<>>, EmptyMap)}

\* a thread that has not called Diff.apply yet
NoCall ==
    [changes |-> <<>>, pc |-> "idle", idx |-> 0, proxy |-> NoProxy,
     result |-> None, error |-> "", overlap |-> FALSE]

InitConc ==
    /\ obj \in ConcRoots
    /\ target = None
    /\ diffs = <<>>
    /\ changes = <<>>
    /\ pc = "idle"
    /\ idx = 0
    /\ proxy = NoProxy
    /\ result = None
    /\ error = ""
    /\ finalized = <<>>
    /\ calls = [i \in Callers |-> NoCall]
    /\ clock = NoClock
    /\ wait = NoWait

\* a proxy that all the calls share
call_proxy_shared(cs, i) == cs["t1"].proxy

\* the proxy call i works on: the local variable proxy of its own frame
call_proxy(cs, i) == cs[i].proxy

\* thread i enters Diff(changes=cs).apply(obj): proxy = _TransformProxy(original=obj);
\* overlap notes that another call was in the middle of its loop then
CallStart(i) ==
    /\ calls[i].pc = "idle"
    /\ \E n \in 0..MaxCallOps :
         \E cs \in [1..n -> ConcPool] :
            calls' = [calls EXCEPT ![i] =
                        [changes |-> cs, pc |-> "loop", idx |-> 1,
                         proxy |-> _TransformProxy(obj),
                         result |-> None, error |-> "",
                         overlap |-> \E j \in Callers \ {i} :
                                        calls[j].pc = "loop" /\ calls[j].idx > 1]]
    /\ UNCHANGED <<obj, target, diffs, changes, pc, idx, proxy, result, error,
                   finalized, clock, wait>>

\* one iteration of thread i's "for c in self.changes"
CallOp(i) ==
    /\ calls[i].pc = "loop"
    /\ calls[i].idx <= Len(calls[i].changes)
    /\ LET r == Diff_apply_body(call_proxy(calls, i), calls[i].changes[calls[i].idx])
       IN /\ calls' = [calls EXCEPT ![i].proxy = r.self,
                                    ![i].error = r.err,
                                    ![i].pc = IF r.err = "" THEN "loop" ELSE "failed",
                                    ![i].idx = @ + 1]
          /\ obj' = caller_tree(obj, r)
    /\ UNCHANGED <<target, diffs, changes, pc, idx, proxy, result, error,
                   finalized, clock, wait>>

\* thread i's "return proxy.commit()"
CallReturn(i) ==
    /\ calls[i].pc = "loop"
    /\ calls[i].idx > Len(calls[i].changes)
    /\ LET r == commit(call_proxy(calls, i))
       IN /\ calls' = [calls EXCEPT ![i].proxy = r.self,
                                    ![i].error = r.err,
                                    ![i].result = r.val,
                                    ![i].pc = IF r.err = "" THEN "done" ELSE "failed"]
          /\ obj' = caller_tree(obj, r)
    /\ UNCHANGED <<target, diffs, changes, pc, idx, proxy, result, error,
                   finalized, clock, wait>>

NextConc == \E i \in Callers : CallStart(i) \/ CallOp(i) \/ CallReturn(i)

SpecConc == InitConc /\ [][NextConc]_vars

----------------------------------------------------------------------------
(* The Wait operation of benchmark.operations as its test drives it: a     *)
(* twisted Clock, a Wait made on it, its probe run, and time passing.      *)

\* longest wait_seconds a Wait is made with
MaxWait == 4
\* the time the Clock is advanced to at most
MaxClock == 8
\* most seconds one clock.advance call adds
MaxStep == 3

\* clock = Clock(): time 0, no delayed calls
Clock == [rightNow |-> 0, calls |-> {}]

\* clock.callLater(delay, ...): a delayed call due at rightNow + delay
callLater(c, delay) == [c EXCEPT !.calls = @ \cup {c.rightNow + delay}]

\* the delayed calls that are due when the clock stands at time now
due(c, now) == {t \in c.calls : t <= now}

\* a clock that runs a delayed call only when its time has been passed
advance_late(c, amount) ==
    [rightNow |-> c.rightNow + amount,
     calls |-> c.calls \ {t \in c.calls : t < c.rightNow + amount}]

\* clock.advance(amount): the time moves on and the calls then due are run
advance(c, amount) ==
    [rightNow |-> c.rightNow + amount,
     calls |-> c.calls \ due(c, c.rightNow + amount)]

\* op = Wait(clock, None, wait_seconds=seconds); probe = op.get_probe()
Wait(wait_seconds) == [wait_seconds |-> wait_seconds, ran_at |-> 0, d |-> "not run"]

\* d = probe.run(): deferLater(clock, wait_seconds, ...), a Deferred with no
\* result yet; ran_at notes the clock's time at the call
WaitProbe_run(w, c) == [w EXCEPT !.ran_at = c.rightNow, !.d = "no result"]

InitWait ==
    /\ obj = None
    /\ target = None
    /\ diffs = <<>>
    /\ changes = <<>>
    /\ pc = "idle"
    /\ idx = 0
    /\ proxy = NoProxy
    /\ result = None
    /\ error = ""
    /\ finalized = <<>>
    /\ calls = <<>>
    /\ clock = Clock
    /\ wait = NoWait

MakeWait ==
    /\ wait.d = "no probe"
    /\ \E seconds \in 0..MaxWait : wait' = Wait(seconds)
    /\ UNCHANGED <<obj, target, diffs, changes, pc, idx, proxy, result, error,
                   finalized, calls, clock>>

ProbeRun ==
    /\ wait.d = "not run"
    /\ clock' = callLater(clock, wait.wait_seconds)
    /\ wait' = WaitProbe_run(wait, clock)
    /\ UNCHANGED <<obj, target, diffs, changes, pc, idx, proxy, result, error,
                   finalized, calls>>

\* clock.advance(amount); a delayed call that is run fires the Deferred
ClockAdvance ==
    /\ \E amount \in 0..MaxStep :
         /\ clock.rightNow + amount <= MaxClock
         /\ clock' = advance(clock, amount)
    /\ wait' = IF clock'.calls # clock.calls THEN [wait EXCEPT !.d = "fired"] ELSE wait
    /\ UNCHANGED <<obj, target, diffs, changes, pc, idx, proxy, result, error,
                   finalized, calls>>

NextWait == MakeWait \/ ProbeRun \/ ClockAdvance

SpecWait == InitWait /\ [][NextWait]_vars

----------------------------------------------------------------------------
(* Properties of create_diff and of applying its Diffs (under Spec).       *)

Finished == pc \in {"done", "failed"}

\* the container an op works on: path[:-1] for a Set, path for Remove and Add
ContainerPath(c) == IF c.op = "Set" THEN Front(c.path) ELSE c.path

\* op c concerns key of the mapping at path p: it removes the key, or its
\* path leads through the key
About(c, p, key) ==
    \/ /\ Len(c.path) > Len(p)
       /\ SubSeq(c.path, 1, Len(p) + 1) = Append(p, key)
    \/ /\ c.op = "Remove"
       /\ c.path = p
       /\ c.item = key

OpsAbout(cs, p, key) ==
    LET Test(c) == About(c, p, key) IN SelectSeq(cs, Test)

SameMappingType(a, b) == type(a) = type(b) /\ type(a) \in {"pmap", "pclass"}

\* C1 (as claimed): for all trees a and b, applying the Diff create_diff(a, b)
\* to a ends without error and returns a tree equal to b.
RoundTrip == Finished => (pc = "done" /\ result = target)

\* C4: create_diff(a, a) has zero changes, and applying a Diff with zero
\* changes returns the input tree: no batch is opened, nothing is committed.
Identity ==
    /\ (pc # "idle" /\ target = obj) => changes = <<>>
    /\ (pc \in {"loop", "done", "failed"} /\ changes = <<>>) =>
          /\ pc # "failed"
          /\ proxy._operations = <<>>
          /\ proxy._current_path = NonePath
          /\ finalized = <<>>
          /\ (pc = "done" => result = obj)

IdentityWitness ==
    /\ pc = "done"
    /\ target = obj
    /\ changes = <<>>
    /\ type(obj) = "pclass"
    /\ result = obj

\* what C8 says of the ops cs emitted for the mappings M1 and M2 at path p
MappingMinimal(p, M1, M2, cs) ==
    /\ \A i \in 1..Len(cs) :
          \E key \in DOMAIN M1 \cup DOMAIN M2 : About(cs[i], p, key)
    /\ \A key \in DOMAIN M1 \cup DOMAIN M2 :
          IF key \notin DOMAIN M2
          THEN OpsAbout(cs, p, key) = <<_Remove(p, key)>>
          ELSE IF key \notin DOMAIN M1
          THEN OpsAbout(cs, p, key) = <<_Set(Append(p, key), M2[key])>>
          ELSE IF M1[key] = M2[key]
          THEN OpsAbout(cs, p, key) = <<>>
          ELSE OpsAbout(cs, p, key) \in
                    _create_diffs_for(Append(p, key), M1[key], M2[key])

\* C8: for mappings (or same-type records) M1 and M2 at path p the differencer
\* emits no op for a key with equal values, exactly one Remove{p, k} per key
\* only in M1, exactly one Set{p+[k], M2[k]} per key only in M2, exactly the
\* recursive diff at p+[k] per key whose value differs, and nothing else.
\* Checked at the root and for mappings one level down.
MappingDiffMinimality ==
    (pc # "idle" /\ SameMappingType(obj, target)) =>
        /\ MappingMinimal(<<>>, obj.m, target.m, changes)
        /\ \A key \in DOMAIN obj.m \cap DOMAIN target.m :
              SameMappingType(obj.m[key], target.m[key]) =>
                  MappingMinimal(<<key>>, obj.m[key].m, target.m[key].m,
                                 OpsAbout(changes, <<>>, key))

MappingDiffWitness ==
    /\ pc = "ready"
    /\ type(obj) = "pmap"
    /\ type(target) = "pmap"
    /\ DOMAIN obj.m = {"x", "y"}
    /\ DOMAIN target.m = {"x"}
    /\ type(obj.m["x"]) = "pset"
    /\ type(target.m["x"]) = "pset"
    /\ Len(changes) = 3

\* what C9 says of the ops cs emitted for the sets S1 and S2 at path p
SetDiffExact(p, S1, S2, cs) ==
    /\ Len(cs) = Cardinality(S1 \ S2) + Cardinality(S2 \ S1)
    /\ \A i \in 1..Len(cs) :
          /\ cs[i].path = p
          /\ IF i <= Cardinality(S1 \ S2)
             THEN cs[i].op = "Remove" /\ cs[i].item \in S1 \ S2
             ELSE cs[i].op = "Add" /\ cs[i].item \in S2 \ S1
    /\ \A i, j \in 1..Len(cs) : i # j => cs[i] # cs[j]

\* C9: for sets S1 and S2 at path p the differencer emits exactly one
\* Remove{p} per element of S1 - S2 and one Add{p} per element of S2 - S1,
\* all Removes before all Adds, no duplicates, nothing for common elements.
\* Checked for sets at the root and for sets held by a mapping or record.
SetDiffCorrectness ==
    /\ (pc # "idle" /\ type(obj) = "pset" /\ type(target) = "pset") =>
          SetDiffExact(<<>>, obj.e, target.e, changes)
    /\ (pc # "idle" /\ SameMappingType(obj, target)) =>
          \A key \in DOMAIN obj.m \cap DOMAIN target.m :
              (type(obj.m[key]) = "pset" /\ type(target.m[key]) = "pset") =>
                  SetDiffExact(<<key>>, obj.m[key].e, target.m[key].e,
                               OpsAbout(changes, <<>>, key))

SetDiffWitness ==
    /\ pc = "ready"
    /\ type(obj) = "pset"
    /\ type(target) = "pset"
    /\ obj.e \ target.e # {}
    /\ target.e \ obj.e # {}
    /\ Len(changes) = 2

\* the orders a sequence of ops can be put in
Reorderings(cs) ==
    {[i \in 1..Len(cs) |-> cs[f[i]]] :
        f \in {g \in [1..Len(cs) -> 1..Len(cs)] :
                \A i, j \in 1..Len(cs) : i # j => g[i] # g[j]}}

\* C10 (as claimed): when the two trees are sets S1 and S2, the ops of
\* create_diff all carry the same path, and applying them to S1 in any
\* relative order returns S2.
SetOpOrderIndependence ==
    (pc = "ready" /\ type(obj) = "pset" /\ type(target) = "pset") =>
        /\ \A i \in 1..Len(changes) : changes[i].path = changes[1].path
        /\ \A cs \in Reorderings(changes) :
              /\ Diff_apply(cs, obj).err = ""
              /\ Diff_apply(cs, obj).val = target

----------------------------------------------------------------------------
(* Properties of Diff.apply and compose_diffs on Diffs of any make (under  *)
(* SpecOps).                                                               *)

IsRootSet(c) == c.op = "Set" /\ c.path = <<>>

\* the position of the last whole-tree replacement in cs, 0 when there is none
LastRootSet(cs) ==
    IF \E i \in 1..Len(cs) : IsRootSet(cs[i])
    THEN CHOOSE i \in 1..Len(cs) :
            IsRootSet(cs[i]) /\ \A j \in (i + 1)..Len(cs) : ~IsRootSet(cs[j])
    ELSE 0

RECURSIVE ApplyInTurn(_, _)
\* the Diffs ds applied one after another, each to the tree the one before returned
ApplyInTurn(ds, o) ==
    IF ds = <<>> THEN Ok(o)
    ELSE IF Diff_apply(Head(ds), o).err # "" THEN Raise(Diff_apply(Head(ds), o).err)
    ELSE ApplyInTurn(Tail(ds), Diff_apply(Head(ds), o).val)

\* C2: whenever applying d_1, ..., d_n one after another to a tree succeeds,
\* applying compose_diffs([d_1, ..., d_n]) to it succeeds too and returns the
\* same tree.
Composition ==
    (Finished /\ ApplyInTurn(diffs, obj).err = "") =>
        /\ pc = "done"
        /\ result = ApplyInTurn(diffs, obj).val

\* two Diffs, both with ops, whose ops at the seam share one batch
CompositionWitness ==
    /\ pc = "done"
    /\ Len(diffs) = 2
    /\ diffs[1] # <<>>
    /\ diffs[2] # <<>>
    /\ ApplyInTurn(diffs, obj).err = ""
    /\ result # obj
    /\ ContainerPath(Last(diffs[1])) = ContainerPath(Head(diffs[2]))
    /\ Len(finalized) = 1

\* a record with neither x nor y set meets a Diff of two Sets, one for each
SetsBothFields ==
    /\ pc \in {"loop", "done", "failed"}
    /\ type(obj) = "pclass"
    /\ ~IsSet(obj.m, "x")
    /\ ~IsSet(obj.m, "y")
    /\ Len(changes) = 2
    /\ \A i \in 1..2 : changes[i].op = "Set" /\ changes[i].value # None
    /\ {changes[1].path, changes[2].path} = {<<"x">>, <<"y">>}

\* C3: for a record whose validator requires "x non-empty implies y set" and
\* that has neither field set, a Diff of two consecutive Sets on it, one for x
\* and one for y in either order, applies successfully: the validator only
\* ever sees the state with both fields set.
BatchAtomicity ==
    SetsBothFields =>
        /\ pc # "failed"
        /\ \A i \in 1..Len(finalized) :
              /\ finalized[i].n = 2
              /\ IsSet(finalized[i].builder.m, "x")
              /\ IsSet(finalized[i].builder.m, "y")
        /\ pc = "done" =>
              /\ Len(finalized) = 1
              /\ \A i \in 1..2 : result.m[Last(changes[i].path)] = changes[i].value

BatchAtomicityWitness ==
    /\ SetsBothFields
    /\ pc = "done"
    /\ changes[1].path = <<"x">>
    /\ IsSet(result.m, "x")

Mixed(cs) == Len(cs) >= 2 /\ \E i \in 1..Len(cs) : IsRootSet(cs[i])

\* C5 (as claimed): applying a Diff that holds a whole-tree replacement (a Set
\* with empty path) together with any other op fails and returns no tree.
MixedReplacementRejected ==
    (Finished /\ Mixed(changes)) => (pc = "failed" /\ result = None)

\* the loop of Diff.apply over the ops before the last whole-tree replacement
BeforeRestart(cs, o) ==
    Diff_apply_for(_TransformProxy(o), SubSeq(cs, 1, LastRootSet(cs) - 1), <<>>)

\* Diff.apply of the ops after the last whole-tree replacement to its value
AfterRestart(cs) ==
    Diff_apply(SubSeq(cs, LastRootSet(cs) + 1, Len(cs)), cs[LastRootSet(cs)].value)

\* C5 (amended): a whole-tree replacement among other ops is not rejected.
\* Unless an op before it has already made apply fail, apply goes on from
\* the replacement's value alone: it returns what applying the ops after the
\* last replacement to that value returns, or fails as that fails.
MixedReplacementRestarts ==
    (Finished /\ Mixed(changes)) =>
        IF BeforeRestart(changes, obj).err # ""
        THEN pc = "failed" /\ error = BeforeRestart(changes, obj).err
        ELSE /\ error = AfterRestart(changes).err
             /\ result = AfterRestart(changes).val
             /\ (pc = "done") = (AfterRestart(changes).err = "")

MixedReplacementWitness ==
    /\ pc = "done"
    /\ Len(changes) = 3
    /\ LastRootSet(changes) = 2
    /\ ~IsRootSet(changes[1])
    /\ result # changes[2].value
    /\ result # obj

RECURSIVE PathAbsent(_, _)
\* the tree o has no value at path: a segment on the way is missing
PathAbsent(o, path) ==
    /\ path # <<>>
    /\ \/ type(o) \notin {"pmap", "pclass"}
       \/ Head(path) \notin DOMAIN o.m
       \/ PathAbsent(o.m[Head(path)], Tail(path))

\* the ops before cs[i] applied, the container path of cs[i] is absent from
\* the tree as it then stands
AbsentAt(cs, o, i) ==
    /\ Len(cs[i].path) > 0
    /\ Diff_apply_for(_TransformProxy(o), SubSeq(cs, 1, i), <<>>).err = ""
    /\ PathAbsent(Diff_apply_for(_TransformProxy(o), SubSeq(cs, 1, i), <<>>)
                      .self._current_object,
                  ContainerPath(cs[i]))

\* the exceptions a failed lookup of a path raises
ResolutionErrors == {"AttributeError", "TypeError"}

\* C6 (as claimed): applying a Diff in which some op's container path does
\* not resolve in the tree as it stands after the prior ops fails, and no
\* result tree is returned.
UnresolvedPathRaises ==
    Finished =>
        \A i \in 1..Len(changes) :
            AbsentAt(changes, obj, i) => (pc = "failed" /\ result = None)

\* the batch of cs[i] is still open when a whole-tree replacement drops it
Discarded(cs, i) ==
    \E j \in (i + 1)..Len(cs) :
        /\ IsRootSet(cs[j])
        /\ \A n \in (i + 1)..(j - 1) :
              Len(cs[n].path) > 0 /\ ContainerPath(cs[n]) = ContainerPath(cs[i])

\* C6 (amended): such a Diff fails, and returns no tree, unless a later
\* whole-tree replacement discards the op's batch before it is committed.
\* The failure is the lookup's own AttributeError or TypeError, raised when
\* the batch is committed, or the AssertionError of an empty-path Remove or
\* Add that comes before that commit.
UnresolvedPathFails ==
    Finished =>
        \A i \in 1..Len(changes) :
            (AbsentAt(changes, obj, i) /\ ~Discarded(changes, i)) =>
                /\ pc = "failed"
                /\ result = None
                /\ \/ error \in ResolutionErrors
                   \/ /\ error = "AssertionError"
                      /\ \E j \in (i + 1)..Len(changes) :
                            Len(changes[j].path) = 0 /\ ~IsRootSet(changes[j])

\* an op two levels down in a mapping that lacks the first level
UnresolvedPathWitness ==
    /\ pc = "failed"
    /\ error = "AttributeError"
    /\ type(obj) = "pmap"
    /\ idx > Len(changes)
    /\ Len(changes) = 2
    /\ AbsentAt(changes, obj, 2)
    /\ ~AbsentAt(changes, obj, 1)
    /\ Len(ContainerPath(changes[2])) = 2

\* C7: in every execution of Diff.apply, whether it returns or fails at an op
\* or at a commit, the caller's tree stays what it was before the call, and a
\* failed call has returned no tree.
NoPartialMutation ==
    [][obj' = obj /\ (pc' = "failed" => result' = None)]_vars

\* a call that failed after it had committed a batch into its own object
NoPartialMutationWitness ==
    /\ pc = "failed"
    /\ finalized # <<>>
    /\ proxy._current_object # obj
    /\ proxy._original_object = obj

----------------------------------------------------------------------------
(* Properties of Diff.apply calls running side by side (under SpecConc).   *)

\* C11: when Diff.apply calls run against the same original tree with their
\* steps interleaved in any order, each call returns exactly the tree (or
\* raises exactly the exception) it returns when run alone, and the shared
\* tree is never written.
ConcurrentUse ==
    \A i \in Callers :
        calls[i].pc \in {"done", "failed"} =>
            /\ calls[i].result = Diff_apply(calls[i].changes, obj).val
            /\ calls[i].error = Diff_apply(calls[i].changes, obj).err
            /\ calls[i].proxy._original_object \in
                  {obj} \cup {c.value : c \in {calls[i].changes[n] : n \in 1..Len(calls[i].changes)}}

\* t2 ran from entry to return while t1 was in the middle of its loop with a
\* batch pending; both returned trees, each its own
ConcurrentUseWitness ==
    /\ calls["t1"].pc = "done"
    /\ calls["t2"].pc = "done"
    /\ calls["t2"].overlap
    /\ Len(calls["t1"].changes) = 2
    /\ Len(calls["t2"].changes) = 2
    /\ calls["t1"].result # calls["t2"].result
    /\ calls["t1"].result # obj
    /\ calls["t2"].result # obj

----------------------------------------------------------------------------
(* Properties of the Wait operation (under SpecWait).                      *)

\* C12: for a Wait made with wait_seconds = n, the Deferred its probe's run()
\* returned has no result while the clock has been advanced by less than n
\* seconds since run() was called, and it has fired once clock.advance has
\* brought the clock n seconds on.
WaitTiming ==
    [][wait'.d \in {"no result", "fired"} =>
          /\ clock'.rightNow - wait'.ran_at < wait'.wait_seconds => wait'.d = "no result"
          /\ (/\ wait.d \in {"no result", "fired"}
              /\ clock'.rightNow - wait'.ran_at >= wait'.wait_seconds) => wait'.d = "fired"]_vars

\* run() was called after the clock had moved, and the clock now stands
\* exactly wait_seconds later
WaitTimingWitness ==
    /\ wait.d = "fired"
    /\ wait.wait_seconds >= 2
    /\ wait.ran_at > 0
    /\ clock.rightNow - wait.ran_at = wait.wait_seconds

----------------------------------------------------------------------------
(* Properties of the applier's batches (under SpecOps).                    *)

Positions(cs) == [i \in 1..Len(cs) |-> i]

\* position i ends a maximal run of consecutive ops of cs with equal
\* container path (an op with empty path works on no container and lies
\* in no run)
EndsRun(cs, i) ==
    /\ Len(cs[i].path) > 0
    /\ \/ i = Len(cs)
       \/ Len(cs[i + 1].path) = 0
       \/ ContainerPath(cs[i + 1]) # ContainerPath(cs[i])

\* the first position of the run of cs that ends at position i
RunStart(cs, i) ==
    CHOOSE j \in 1..i :
        /\ \A n \in j..i : Len(cs[n].path) > 0 /\ ContainerPath(cs[n]) = ContainerPath(cs[i])
        /\ j > 1 => \/ Len(cs[j - 1].path) = 0
                    \/ ContainerPath(cs[j - 1]) # ContainerPath(cs[i])

\* the run of cs that ends at position i: its container path and its length
RunAt(cs, i) == [path |-> ContainerPath(cs[i]), n |-> i - RunStart(cs, i) + 1]

\* the maximal runs of cs, in order
Runs(cs) ==
    LET Ends(i) == EndsRun(cs, i)
    IN [r \in 1..Len(SelectSeq(Positions(cs), Ends)) |->
           RunAt(cs, SelectSeq(Positions(cs), Ends)[r])]

\* the finalizations of this apply pass: the path and the number of
\* mutations of each builder made immutable
Finalizations == [i \in 1..Len(finalized) |-> [path |-> finalized[i].path, n |-> finalized[i].n]]

\* C13 (as claimed): in an apply pass the open batch is finalized exactly when
\* the next op's container path differs from the open batch's, and once more
\* after the last op: the finalizations of a pass are the maximal runs of
\* consecutive ops with equal container path, each seeing all its run's ops.
FlushPerRun ==
    pc = "done" => Finalizations = Runs(changes)

\* the runs of cs that are finalized: a run is dropped, not finalized, when a
\* whole-tree replacement comes next; the last run is finalized at the end
\* of the pass (atEnd) and still open before it
Flushed(cs, atEnd) ==
    LET Ends(i) == /\ EndsRun(cs, i)
                   /\ IF i = Len(cs) THEN atEnd ELSE Len(cs[i + 1].path) > 0
    IN [r \in 1..Len(SelectSeq(Positions(cs), Ends)) |->
           RunAt(cs, SelectSeq(Positions(cs), Ends)[r])]

\* C13 (amended): the open batch is finalized exactly when the next op has a
\* non-empty path and a container path that differs from the open batch's,
\* and once more after the last op if a batch is open then; a whole-tree
\* replacement (a Set with empty path) drops the open batch without
\* finalizing it. So the finalizations of a pass are the maximal runs of
\* consecutive ops with equal container path that no whole-tree replacement
\* follows directly, each seeing all its run's ops.
FlushPerBatch ==
    /\ pc = "done" => Finalizations = Flushed(changes, TRUE)
    /\ pc = "loop" => Finalizations = Flushed(SubSeq(changes, 1, idx - 1), FALSE)

\* two runs, the first of two ops, and no whole-tree replacement
FlushWitness ==
    /\ pc = "done"
    /\ Len(changes) = 3
    /\ \A i \in 1..3 : Len(changes[i].path) > 0
    /\ Len(finalized) = 2
    /\ finalized[1].n = 2

----------------------------------------------------------------------------
(* Properties of create_diff's Diffs at the root and across iteration      *)
(* orders (under Spec).                                                    *)

\* the op the for loop of Diff.apply has just handled is a Remove or an Add
\* with the empty (root) path
HandledRootRemoveOrAdd ==
    /\ pc \in {"loop", "done", "failed"}
    /\ idx > 1
    /\ changes[idx - 1].path = <<>>
    /\ changes[idx - 1].op \in {"Remove", "Add"}

\* C14 (as claimed): a Remove or Add whose path is the empty (root) path is
\* applied by Diff.apply to the root container rather than rejected; so every
\* op create_diff emits for two root mappings or two root sets is accepted.
RootRemoveAddAccepted ==
    HandledRootRemoveOrAdd => (pc # "failed" /\ error = "")


\* no op of cs is a Remove or Add with the empty (root) path
NoRootRemoveOrAdd(cs) ==
    \A i \in 1..Len(cs) : cs[i].path = <<>> => cs[i].op = "Set"

\* C15 (as claimed): for all valid trees a and b, records with cross-field
\* invariants included, applying create_diff(a, b) to a succeeds and returns b
\* for every order in which the differencer may iterate the keys of a mapping
\* or record.  (Diffs with a root-level Remove or Add, which Diff.apply
\* rejects in every order, are left aside.)
KeyOrderIndependence ==
    (Finished /\ NoRootRemoveOrAdd(changes)) => (pc = "done" /\ result = target)

----------------------------------------------------------------------------
(* Properties of Diff.apply on Diffs of any make, continued (under         *)
(* SpecOps).                                                               *)

\* the Diff cs is a Set that puts a mapping at a key of the root, followed
\* by a Set of a key inside that mapping
CreatesThenFills(cs) ==
    /\ Len(cs) = 2
    /\ cs[1].op = "Set"
    /\ Len(cs[1].path) = 1
    /\ type(cs[1].value) = "pmap"
    /\ cs[2].op = "Set"
    /\ Len(cs[2].path) = 2
    /\ Front(cs[2].path) = cs[1].path

\* the mapping f with key set to value
WithKey(f, key, value) ==
    [q \in DOMAIN f \cup {key} |-> IF q = key THEN value ELSE f[q]]

\* C16: when a batch is committed, its container path is resolved in the tree
\* accumulated so far, not in the untouched original: a Diff whose first op
\* creates a nested mapping at key k (and applies by itself) and whose next
\* op sets a key inside it applies successfully, and the later op has taken
\* effect inside the newly created mapping.
InProgressResolution ==
    (Finished /\ CreatesThenFills(changes) /\ Diff_apply(<<changes[1]>>, obj).err = "") =>
        /\ pc = "done"
        /\ result.k = obj.k
        /\ result.m = WithKey(obj.m, Last(changes[1].path),
                              PMap(WithKey(changes[1].value.m,
                                           Last(changes[2].path), changes[2].value)))
        /\ Len(finalized) = 2
        /\ finalized[2].builder.m[Last(changes[2].path)] = changes[2].value

\* the original tree has nothing at the key the first op creates
InProgressResolutionWitness ==
    /\ pc = "done"
    /\ CreatesThenFills(changes)
    /\ type(obj) = "pmap"
    /\ Last(changes[1].path) \notin DOMAIN obj.m
    /\ result.m[Last(changes[1].path)] # changes[1].value


\* C17: when Diff.apply meets a Set with empty path it discards the current
\* applier, pending uncommitted operations and everything accumulated so far
\* included, and goes on with a fresh applier whose original object is the
\* Set's value and whose pending batch is empty (nothing is finalized); a
\* Diff of only that Set returns exactly its value for any input tree.
ReplacementRestarts ==
    [][/\ (pc = "loop" /\ idx <= Len(changes) /\ idx' = idx + 1 /\ IsRootSet(changes[idx])) =>
            /\ proxy' = _TransformProxy(changes[idx].value)
            /\ finalized' = finalized
            /\ pc' = "loop"
       /\ (pc' \in {"done", "failed"} /\ Len(changes') = 1 /\ IsRootSet(changes'[1])) =>
            /\ pc' = "done"
            /\ result' = changes'[1].value]_vars

\* the replacement has just dropped a pending batch that an op before it opened
ReplacementRestartsWitness ==
    /\ pc = "loop"
    /\ idx = 3
    /\ IsRootSet(changes[2])
    /\ Len(changes[1].path) > 0
    /\ proxy = _TransformProxy(changes[2].value)
    /\ changes[2].value # obj

----------------------------------------------------------------------------
(* Properties of the differencer, continued (under Spec).                  *)

\* the ops of cs whose path lies at or below path p
OpsUnder(cs, p) ==
    LET Test(c) == Len(c.path) >= Len(p) /\ SubSeq(c.path, 1, Len(p)) = p
    IN SelectSeq(cs, Test)

\* unequal values the differencer does not look inside: their types differ, or
\* they are neither records, mappings nor sets
NoRecursion(a, b) ==
    /\ a # b
    /\ \/ type(a) # type(b)
       \/ type(a) \notin {"pclass", "pmap", "pset"}

RECURSIVE SingleSetWhereNoRecursion(_, _, _, _)
\* wherever the differencer, on its way down from a and b at path p, meets
\* values it does not look inside, cs holds one op at or below their path:
\* the Set of b's value there
SingleSetWhereNoRecursion(p, a, b, cs) ==
    IF a = b THEN TRUE
    ELSE IF NoRecursion(a, b) THEN OpsUnder(cs, p) = <<_Set(p, b)>>
    ELSE IF type(a) = "pset" THEN TRUE
    ELSE \A key \in DOMAIN a.m \cap DOMAIN b.m :
            SingleSetWhereNoRecursion(Append(p, key), a.m[key], b.m[key], cs)

\* C18: for unequal values a and b at path p whose types differ, or that have
\* the same type but are neither records, mappings nor sets, the differencer
\* emits exactly one op, Set{path=p, value=b}, and does not recurse; at the
\* root the Diff is exactly one empty-path Set and nothing else.
TypeMismatchFallback ==
    pc # "idle" =>
        /\ SingleSetWhereNoRecursion(<<>>, obj, target, changes)
        /\ NoRecursion(obj, target) => changes = <<_Set(<<>>, target)>>

\* two mappings whose values at one key have different types, and at the
\* other key are different strings
FallbackWitness ==
    /\ pc = "ready"
    /\ type(obj) = "pmap"
    /\ type(target) = "pmap"
    /\ DOMAIN obj.m = {"x", "y"}
    /\ DOMAIN target.m = {"x", "y"}
    /\ type(obj.m["x"]) = "pset"
    /\ type(target.m["x"]) = "str"
    /\ type(obj.m["y"]) = "str"
    /\ type(target.m["y"]) = "str"
    /\ Len(changes) = 2

----------------------------------------------------------------------------
(* Properties of compose_diffs (under SpecOps).                            *)

RECURSIVE LenSum(_)
\* the lengths of the Diffs ds added up
LenSum(ds) == IF ds = <<>> THEN 0 ELSE Len(Head(ds)) + LenSum(Tail(ds))

\* C19: the changes of the Diff compose_diffs returns are exactly the changes
\* of its inputs concatenated in input order, no op dropped, duplicated,
\* merged or reordered: its length is the sum of the input lengths, and the
\* i-th op of the d-th input stands at place i after the ops of the inputs
\* before it.  Composing an empty sequence gives the empty Diff.
ComposeIsConcatenation ==
    pc # "idle" =>
        /\ Len(changes) = LenSum(diffs)
        /\ \A d \in 1..Len(diffs) :
              \A i \in 1..Len(diffs[d]) :
                  changes[LenSum(SubSeq(diffs, 1, d - 1)) + i] = diffs[d][i]
        /\ diffs = <<>> => changes = <<>>

\* two Diffs that begin with the same op: the composition keeps both
ComposeIsConcatenationWitness ==
    /\ pc = "ready"
    /\ Len(diffs) = 2
    /\ Len(diffs[1]) = 1
    /\ Len(diffs[2]) = 2
    /\ diffs[1][1] = diffs[2][1]
    /\ Len(changes) = 3

----------------------------------------------------------------------------
(* The order of the ops create_diff returns (under Spec).                  *)

\* C20 (as claimed): in every Diff create_diff returns, all ops with the same
\* container path (path[:-1] for Set, path for Remove and Add) are contiguous
\* in the change list, so that apply finalizes every container at most once.
ContiguousBatches ==
    pc # "idle" =>
        \A i \in 1..Len(changes) :
            \A j \in i..Len(changes) :
                ContainerPath(changes[i]) = ContainerPath(changes[j]) =>
                    \A n \in i..j : ContainerPath(changes[n]) = ContainerPath(changes[i])

====
